---- MODULE Spec2Model ----
(***************************************************************************)
(* The two offline reports of polymarket-whale-tracker:                    *)
(*   ml_win_predictor.py  (prog = "win")   get_data, engineer_features,    *)
(*                                         main                            *)
(*   ml_peak_exit.py      (prog = "peak")  get_losing_trades,              *)
(*                                         parse_evaluator_log,            *)
(*                                         compute_window_duration, main   *)
(* Each run of Spec is one invocation of one of the two scripts on one     *)
(* content of the store.  SpecFn applies the pure helpers to drawn inputs. *)
(*                                                                         *)
(* Units: prices and probabilities are integers in hundredths (0.40 is 40, *)
(* probability 1.0 is 100); created_at is whole hours since                *)
(* 2026-01-01T00:00Z; log timestamps are seconds since the trade's entry.  *)
(* A nullable value is <<>> (SQL NULL, None, NaN, NaT) or <<v>>.           *)
(***************************************************************************)
EXTENDS Integers, Sequences, FiniteSets, TLC

VARIABLES
    prog,          \* which script this run executes: "win", "peak", or "fn"
    pc,            \* position of the run in main()
    conn,          \* the psycopg2 connection: "none", "open", "closed"
    table,         \* content of the store's table the script reads
    df,            \* the DataFrame main() works on
    train,         \* win: rows before split_date
    test,          \* win: rows at or after split_date
    train_clean,   \* win: train.dropna(subset=FEATURES)
    test_clean,    \* win: test.dropna(subset=FEATURES), later with pred_prob
    dur_df,        \* peak: DataFrame(durations)
    df_model,      \* peak: the modelling frame
    fit_calls,     \* the frames handed to model.fit, in call order
    predict_calls, \* the frames handed to model.predict_proba, in call order
    report,        \* win: the printed calibration tables
    out,           \* the notices and banners printed so far
    call,          \* SpecFn: the helper applied and its arguments
    ret            \* SpecFn: what the helper returned or raised

vars == <<prog, pc, conn, table, df, train, test, train_clean, test_clean,
          dur_df, df_model, fit_calls, predict_calls, report, out, call, ret>>

-----------------------------------------------------------------------------
(* Nullable values *)

NULL == <<>>
Some(v) == <<v>>
Val(x) == x[1]
IsNull(x) == x = NULL

\* pandas/numpy arithmetic: NaN in, NaN out
Mul(a, b) == IF IsNull(a) \/ IsNull(b) THEN NULL ELSE Some(Val(a) * Val(b))
Sub(a, b) == IF IsNull(a) \/ IsNull(b) THEN NULL ELSE Some(Val(a) - Val(b))

\* a comparison with NaN or NaT is False
Lt(a, b) == ~IsNull(a) /\ Val(a) < b
Ge(a, b) == ~IsNull(a) /\ Val(a) >= b

Range(s) == {s[i] : i \in 1..Len(s)}

-----------------------------------------------------------------------------
(* Bounds of the model *)

MaxOppRows == 3
MaxTradeRows == 5
MaxLogLen == 4
MaxRawLen == 2
MaxCities == 3

-----------------------------------------------------------------------------
(* sklearn.preprocessing.LabelEncoder on a column of city names *)

\* The city names of the model, in the order Python compares the strings.
CityNames == <<"austin", "seoul", "tokyo">>

StrRank(c) == CHOOSE i \in 1..Len(CityNames) : CityNames[i] = c

\* np.unique: the distinct values, sorted
RECURSIVE SortedUnique(_)
SortedUnique(S) ==
    IF S = {} THEN <<>>
    ELSE LET m == CHOOSE x \in S : \A z \in S : StrRank(x) <= StrRank(z)
         IN  <<m>> \o SortedUnique(S \ {m})

\* the distinct values in the order they first appear (what pd.factorize does)
RECURSIVE FirstSeen(_)
FirstSeen(y) ==
    IF y = <<>> THEN <<>>
    ELSE LET init == FirstSeen(SubSeq(y, 1, Len(y) - 1))
         IN  IF y[Len(y)] \in Range(init) THEN init ELSE Append(init, y[Len(y)])

\* le.fit: classes_
LabelEncoderFit(y) == SortedUnique(Range(y))

\* le.transform of one value: its position in classes_, from 0
LabelEncoderTransform(classes, c) ==
    (CHOOSE i \in 1..Len(classes) : classes[i] = c) - 1

\* le.fit_transform
FitTransform(y) ==
    LET classes == LabelEncoderFit(y)
    IN  [i \in 1..Len(y) |-> LabelEncoderTransform(classes, y[i])]

-----------------------------------------------------------------------------
(* pandas helpers *)

\* frame.dropna(subset=...) with how='all': a row goes only when every listed
\* column is null
DropNaAll(frame, subset) ==
    SelectSeq(frame, LAMBDA r : \E f \in subset : ~IsNull(r[f]))

\* frame.dropna(subset=...): a row goes when any listed column is null
DropNa(frame, subset) ==
    SelectSeq(frame, LAMBDA r : \A f \in subset : ~IsNull(r[f]))

\* frame[cols]: the listed columns, the index kept
Columns(frame, cols) ==
    [i \in 1..Len(frame) |-> [f \in cols \cup {"idx"} |-> frame[i][f]]]

\* pd.read_sql's result: the rows under a fresh RangeIndex
WithIndex(rows) == [i \in 1..Len(rows) |-> [idx |-> i - 1] @@ rows[i]]

-----------------------------------------------------------------------------
(* ml_win_predictor.py *)

\* pd.Timestamp('2026-02-20', tz='UTC'), in hours since 2026-01-01T00:00Z
split_date == 1200

\* created_at.dt.month, for instants of January to March 2026
Month(h) == IF h < 744 THEN 1 ELSE IF h < 1416 THEN 2 ELSE 3

\* created_at.dt.hour
HourOfDay(h) == h % 24

FEATURES == {"ask", "bid", "spread", "our_probability", "ensemble_std_dev",
             "hours_to_resolution", "range_width", "range_type_enc", "side_enc",
             "city_enc", "month", "hour_of_day", "ask_x_hours", "prob_minus_ask"}

\* One row of the opportunities table.
BaseOpp ==
    [city |-> "seoul", platform |-> "polymarket", model_valid |-> Some(TRUE),
     range_type |-> "bounded", side |-> "YES",
     ask |-> Some(40), bid |-> Some(38), spread |-> Some(2),
     our_probability |-> Some(35), ensemble_std_dev |-> Some(1),
     hours_to_resolution |-> Some(2), range_width |-> Some(1),
     would_have_won |-> Some(TRUE), created_at |-> Some(1199)]

\* The rows the store may hold: before, at and after the cutoff, with and
\* without a null feature, with a null created_at, and one the query rejects.
OppRows ==
    { BaseOpp,
      [BaseOpp EXCEPT !.city = "tokyo", !.hours_to_resolution = NULL],
      [BaseOpp EXCEPT !.city = "tokyo", !.created_at = Some(1200),
                      !.our_probability = Some(100),
                      !.would_have_won = Some(FALSE)],
      [BaseOpp EXCEPT !.city = "austin", !.created_at = Some(1201),
                      !.our_probability = Some(0), !.range_type = "unbounded"],
      [BaseOpp EXCEPT !.created_at = Some(1201), !.ensemble_std_dev = NULL],
      [BaseOpp EXCEPT !.created_at = NULL],
      [BaseOpp EXCEPT !.created_at = Some(1201), !.would_have_won = NULL],
      [BaseOpp EXCEPT !.created_at = Some(1201), !.our_probability = Some(30),
                      !.would_have_won = Some(FALSE), !.side = "NO"] }

\* the WHERE clause of get_data's query
OppWhere(r) ==
    /\ (r.model_valid = Some(TRUE) \/ IsNull(r.model_valid))
    /\ r.platform = "polymarket"
    /\ ~IsNull(r.would_have_won)
    /\ ~IsNull(r.ask) /\ ~IsNull(r.our_probability)

OppSelect == {"city", "platform", "range_type", "side", "ask", "bid", "spread",
              "our_probability", "ensemble_std_dev", "hours_to_resolution",
              "range_width", "would_have_won", "created_at"}

\* what pd.read_sql(query, conn) returns in get_data
OppQuery(t) ==
    LET hit == SelectSeq(t, OppWhere)
    IN  WithIndex([i \in 1..Len(hit) |-> [f \in OppSelect |-> hit[i][f]]])

\* engineer_features: the frame with the derived columns
engineer_features(d) ==
    LET city_enc == FitTransform([i \in 1..Len(d) |-> d[i].city])
        row(i) ==
            LET r == d[i]
            IN  [target |-> IF Val(r.would_have_won) THEN 1 ELSE 0,
                 range_type_enc |->
                     Some(IF r.range_type = "unbounded" THEN 1 ELSE 0),
                 side_enc |-> Some(IF r.side = "YES" THEN 1 ELSE 0),
                 city_enc |-> Some(city_enc[i]),
                 month |-> IF IsNull(r.created_at) THEN NULL
                           ELSE Some(Month(Val(r.created_at))),
                 hour_of_day |-> IF IsNull(r.created_at) THEN NULL
                                 ELSE Some(HourOfDay(Val(r.created_at))),
                 ask_x_hours |-> Mul(r.ask, r.hours_to_resolution),
                 prob_minus_ask |-> Sub(r.our_probability, r.ask)] @@ r
    IN  [i \in 1..Len(d) |-> row(i)]

\* df[df['created_at'] < split_date]
TrainPart(d) == SelectSeq(d, LAMBDA r : Lt(r.created_at, split_date))

\* df[df['created_at'] >= split_date]
TestPart(d) == SelectSeq(d, LAMBDA r : Ge(r.created_at, split_date))

\* The probabilities predict_proba may return for a row: 0, 1, a bin edge and
\* an interior point.
ProbGrid == {0, 30, 35, 100}

\* np.linspace(0, 1, 11)
bins == [i \in 1..11 |-> (i - 1) * 10]

\* bins.searchsorted(x, side='left'): how many edges lie below x
SearchSortedLeft(b, x) == Cardinality({i \in 1..Len(b) : b[i] < x})

\* pd.cut(x, bins, right=True) without include_lowest
CutNoLowest(b, x) ==
    IF IsNull(x) THEN NULL
    ELSE LET ids == SearchSortedLeft(b, Val(x))
         IN  IF ids = Len(b) \/ ids = 0 THEN NULL ELSE Some(ids)

\* pd.cut(x, bins=bins, include_lowest=True) for one value: the number of the
\* interval (1 is the lowest) or null when x is in none
Cut(b, x) ==
    IF IsNull(x) THEN NULL
    ELSE LET raw == SearchSortedLeft(b, Val(x))
             ids == IF Val(x) = b[1] THEN 1 ELSE raw
         IN  IF ids = Len(b) \/ ids = 0 THEN NULL ELSE Some(ids)

\* the rows one calibration table prints: for each interval with rows (the
\* groupby with observed=True and the len(group) > 0 test), its row count
CalibrationTable(frame, col) ==
    LET n(k) == Cardinality({i \in 1..Len(frame) :
                                Cut(bins, frame[i][col]) = Some(k)})
    IN  SelectSeq([k \in 1..(Len(bins) - 1) |-> [interval |-> k, count |-> n(k)]],
                  LAMBDA g : g.count > 0)

NoReport == [pred_bin |-> <<>>, prob_bin |-> <<>>]

\* what every step of the win predictor leaves alone
WinIdle == UNCHANGED <<prog, table, dur_df, df_model, call, ret>>

\* get_data, line 21: psycopg2.connect
WinConnect ==
    /\ prog = "win" /\ pc = "start"
    /\ conn' = "open" /\ pc' = "query"
    /\ UNCHANGED <<df, train, test, train_clean, test_clean, fit_calls,
                   predict_calls, report, out>>
    /\ WinIdle

\* get_data, line 21: the store is unreachable, connect raises
WinConnectRaises ==
    /\ prog = "win" /\ pc = "start"
    /\ pc' = "failed"
    /\ UNCHANGED <<conn, df, train, test, train_clean, test_clean, fit_calls,
                   predict_calls, report, out>>
    /\ WinIdle

\* get_data, line 32: pd.read_sql returns the matching rows
WinReadSql ==
    /\ prog = "win" /\ pc = "query"
    /\ df' = OppQuery(table) /\ pc' = "close"
    /\ UNCHANGED <<conn, train, test, train_clean, test_clean, fit_calls,
                   predict_calls, report, out>>
    /\ WinIdle

\* get_data, line 32: pd.read_sql raises; the exception leaves get_data and
\* main, and line 33 is never run
WinReadSqlRaises ==
    /\ prog = "win" /\ pc = "query"
    /\ pc' = "failed"
    /\ UNCHANGED <<conn, df, train, test, train_clean, test_clean, fit_calls,
                   predict_calls, report, out>>
    /\ WinIdle

\* get_data, lines 33-34: conn.close() and return
WinClose ==
    /\ prog = "win" /\ pc = "close"
    /\ conn' = "closed" /\ pc' = "loaded"
    /\ UNCHANGED <<df, train, test, train_clean, test_clean, fit_calls,
                   predict_calls, report, out>>
    /\ WinIdle

\* main, line 80
WinEngineer ==
    /\ prog = "win" /\ pc = "loaded"
    /\ df' = engineer_features(df) /\ pc' = "engineered"
    /\ UNCHANGED <<conn, train, test, train_clean, test_clean, fit_calls,
                   predict_calls, report, out>>
    /\ WinIdle

\* main, lines 84-90
WinSplit ==
    /\ prog = "win" /\ pc = "engineered"
    /\ train' = TrainPart(df) /\ test' = TestPart(df) /\ pc' = "split"
    /\ UNCHANGED <<conn, df, train_clean, test_clean, fit_calls,
                   predict_calls, report, out>>
    /\ WinIdle

\* main, lines 93-101
WinDropNa ==
    /\ prog = "win" /\ pc = "split"
    /\ train_clean' = DropNa(train, FEATURES)
    /\ test_clean' = DropNa(test, FEATURES)
    /\ pc' = "clean"
    /\ UNCHANGED <<conn, df, train, test, fit_calls, predict_calls, report, out>>
    /\ WinIdle

\* main, lines 114-115: model.fit(X_train, y_train) returns
WinFit ==
    /\ prog = "win" /\ pc = "clean"
    /\ Len(train_clean) > 0
    /\ fit_calls' = Append(fit_calls, Columns(train_clean, FEATURES))
    /\ pc' = "fitted"
    /\ UNCHANGED <<conn, df, train, test, train_clean, test_clean,
                   predict_calls, report, out>>
    /\ WinIdle

\* main, line 115: LightGBM refuses a training set with no rows
WinFitRaises ==
    /\ prog = "win" /\ pc = "clean"
    /\ Len(train_clean) = 0
    /\ fit_calls' = Append(fit_calls, Columns(train_clean, FEATURES))
    /\ pc' = "failed"
    /\ UNCHANGED <<conn, df, train, test, train_clean, test_clean,
                   predict_calls, report, out>>
    /\ WinIdle

\* y_test holds one class only
OneClass(frame) == Cardinality({frame[i].target : i \in 1..Len(frame)}) < 2

\* main, lines 117-121 and 138-139: predict_proba, the two metrics, and the
\* pred_prob column
WinScore ==
    /\ prog = "win" /\ pc = "fitted"
    /\ Len(test_clean) > 0
    /\ \E preds \in [1..Len(test_clean) -> ProbGrid] :
           test_clean' = [i \in 1..Len(test_clean) |->
                             [pred_prob |-> Some(preds[i])] @@ test_clean[i]]
    /\ predict_calls' = Append(predict_calls, Columns(test_clean, FEATURES))
    /\ pc' = "scored"
    /\ UNCHANGED <<conn, df, train, test, train_clean, fit_calls, report, out>>
    /\ WinIdle

\* main, lines 117-119: with no evaluation row predict_proba or the metrics
\* raise; with one class in y_test roc_auc_score raises in the scikit-learn
\* releases that do not return nan for it
WinScoreRaises ==
    /\ prog = "win" /\ pc = "fitted"
    /\ OneClass(test_clean)
    /\ predict_calls' = Append(predict_calls, Columns(test_clean, FEATURES))
    /\ pc' = "failed"
    /\ UNCHANGED <<conn, df, train, test, train_clean, test_clean, fit_calls,
                   report, out>>
    /\ WinIdle

\* main, lines 123-184: the importance table and the Seoul section
WinSeoul ==
    /\ prog = "win" /\ pc = "scored"
    /\ out' = out \cup {"[3] FEATURE IMPORTANCE", "[4] SEOUL ISOLATION ANALYSIS"}
    /\ pc' = "calibration"
    /\ UNCHANGED <<conn, df, train, test, train_clean, test_clean, fit_calls,
                   predict_calls, report>>
    /\ WinIdle

\* main, lines 186-212: the two calibration tables
WinCalibrate ==
    /\ prog = "win" /\ pc = "calibration"
    /\ report' = [pred_bin |-> CalibrationTable(test_clean, "pred_prob"),
                  prob_bin |-> CalibrationTable(test_clean, "our_probability")]
    /\ pc' = "misses"
    /\ UNCHANGED <<conn, df, train, test, train_clean, test_clean, fit_calls,
                   predict_calls, out>>
    /\ WinIdle

\* main, lines 214-236: the worst misses, the CSV and the banner
WinFinish ==
    /\ prog = "win" /\ pc = "misses"
    /\ out' = out \cup {"DONE"}
    /\ pc' = "done"
    /\ UNCHANGED <<conn, df, train, test, train_clean, test_clean, fit_calls,
                   predict_calls, report>>
    /\ WinIdle

WinNext ==
    \/ WinConnect \/ WinConnectRaises \/ WinReadSql \/ WinReadSqlRaises
    \/ WinClose \/ WinEngineer \/ WinSplit \/ WinDropNa \/ WinFit
    \/ WinFitRaises \/ WinScore \/ WinScoreRaises \/ WinSeoul
    \/ WinCalibrate \/ WinFinish

InitWin ==
    /\ prog = "win" /\ pc = "start" /\ conn = "none"
    /\ \E k \in 0..MaxOppRows : table \in [1..k -> OppRows]
    /\ df = <<>> /\ train = <<>> /\ test = <<>>
    /\ train_clean = <<>> /\ test_clean = <<>>
    /\ dur_df = <<>> /\ df_model = <<>>
    /\ fit_calls = <<>> /\ predict_calls = <<>>
    /\ report = NoReport /\ out = {}
    /\ call = <<>> /\ ret = <<>>

-----------------------------------------------------------------------------
(* ml_peak_exit.py: the evaluator log *)

\* The ts texts of the model and the instant pd.to_datetime reads from each,
\* in seconds; every instant is a whole minute, so that a difference of two,
\* total_seconds() / 60, is a whole number of minutes.
TsText == {"00:00", "00:01", "00:03"}

to_datetime(s) ==
    CASE s = "00:00" -> 0
      [] s = "00:01" -> 60
      [] s = "00:03" -> 180

\* entry.get(k): None when the key is absent
Get(entry, k) == IF k \in DOMAIN entry THEN entry[k] ELSE NULL

\* entry.get(k, d)
GetOr(entry, k, d) == IF k \in DOMAIN entry THEN entry[k] ELSE Some(d)

\* An evaluator_log value as main() receives it: None (SQL NULL), a decoded
\* JSON array, or the JSON text of an array or of null (v is what the text
\* decodes to).
LogNone == [kind |-> "none", v |-> NULL]
LogList(l) == [kind |-> "list", v |-> Some(l)]
LogStr(decoded) == [kind |-> "str", v |-> decoded]

\* float(x) raises TypeError on None
FloatRaises(x) == IsNull(x)

\* the entries parse_evaluator_log keeps, when it raises nothing
KeptEntries(l) ==
    LET keep == SelectSeq(l, LAMBDA e : ~IsNull(Get(e, "ts"))
                                        /\ ~IsNull(Get(e, "bid")))
    IN  [i \in 1..Len(keep) |->
            [ts |-> to_datetime(Val(keep[i].ts)),
             bid |-> Val(keep[i].bid),
             ask |-> Val(GetOr(keep[i], "ask", 0))]]

\* parse_evaluator_log(log_json): [raised, value]
parse_evaluator_log(log_json) ==
    IF log_json.kind = "none" THEN [raised |-> FALSE, value |-> <<>>]
    ELSE IF IsNull(log_json.v)
         \* json.loads("null") is None, and the for loop over None raises
         THEN [raised |-> TRUE, value |-> <<>>]
    ELSE LET l == Val(log_json.v)
             bad(e) == /\ ~IsNull(Get(e, "ts")) /\ ~IsNull(Get(e, "bid"))
                       /\ FloatRaises(GetOr(e, "ask", 0))
         IN  IF \E i \in 1..Len(l) : bad(l[i])
             THEN [raised |-> TRUE, value |-> <<>>]
             ELSE [raised |-> FALSE, value |-> KeptEntries(l)]

\* compute_window_duration with last_ts taken from the whole log
WindowToLogEnd(log_entries, threshold) ==
    IF log_entries = <<>> THEN 0
    ELSE LET above_entries ==
                 SelectSeq(log_entries, LAMBDA e : e.bid >= threshold)
         IN  IF above_entries = <<>> THEN 0
             ELSE (log_entries[Len(log_entries)].ts - above_entries[1].ts)
                      \div 60

\* compute_window_duration without the division: the span in seconds
WindowInSeconds(log_entries, threshold) ==
    IF log_entries = <<>> THEN 0
    ELSE LET above_entries ==
                 SelectSeq(log_entries, LAMBDA e : e.bid >= threshold)
         IN  IF above_entries = <<>> THEN 0
             ELSE above_entries[Len(above_entries)].ts - above_entries[1].ts

\* compute_window_duration(log_entries, threshold), in minutes
compute_window_duration(log_entries, threshold) ==
    IF log_entries = <<>> THEN 0
    ELSE LET above_entries ==
                 SelectSeq(log_entries, LAMBDA e : e.bid >= threshold)
         IN  IF above_entries = <<>> THEN 0
             ELSE LET first_ts == above_entries[1].ts
                      last_ts == above_entries[Len(above_entries)].ts
                  IN  (last_ts - first_ts) \div 60

-----------------------------------------------------------------------------
(* ml_peak_exit.py: main *)

\* One row of the trades table.  The columns main() only prints (platform,
\* range_unit, entry_reason, created_at) are left out.
BaseTrade ==
    [city |-> "seoul", range_name |-> "10-11C", range_type |-> "bounded",
     side |-> "YES",
     entry_ask |-> Some(40), entry_bid |-> Some(38), entry_spread |-> Some(2),
     entry_probability |-> Some(55), entry_edge_pct |-> Some(15),
     cost |-> Some(400), shares |-> Some(10), max_price_seen |-> Some(80),
     pnl |-> Some(-400), won |-> Some(FALSE), status |-> "resolved",
     hours_to_resolution |-> Some(24),
     evaluator_log |->
         LogList(<<[ts |-> Some("00:00"), bid |-> Some(65), ask |-> Some(66)],
                   [ts |-> Some("00:03"), bid |-> Some(70), ask |-> Some(71)]>>)]

\* The rows the store may hold: with and without a 1.5x peak, with a null
\* feature, with entry_ask 0 (and a log entry whose ask is null), and one the
\* query rejects.
TradeRows ==
    { BaseTrade,
      [BaseTrade EXCEPT !.city = "tokyo", !.max_price_seen = Some(50),
                        !.side = "NO", !.evaluator_log = LogNone],
      [BaseTrade EXCEPT !.hours_to_resolution = NULL, !.status = "exited",
                        !.evaluator_log = LogNone],
      [BaseTrade EXCEPT !.city = "austin", !.entry_ask = Some(0),
                        !.max_price_seen = Some(50),
                        !.range_type = "unbounded",
                        !.evaluator_log =
          LogList(<<[ts |-> Some("00:01"), bid |-> Some(65), ask |-> NULL]>>)],
      [BaseTrade EXCEPT !.entry_ask = NULL] }

\* the WHERE clause of get_losing_trades' query
TradeWhere(r) ==
    /\ r.status \in {"resolved", "exited"}
    /\ r.won = Some(FALSE)
    /\ ~IsNull(r.max_price_seen)
    /\ ~IsNull(r.entry_ask)
    /\ ~IsNull(r.pnl)

\* what pd.read_sql(query, conn) returns in get_losing_trades; a row's id is
\* its place in the table
TradeQuery(t) ==
    LET keyed == [i \in 1..Len(t) |-> [id |-> i] @@ t[i]]
    IN  WithIndex(SelectSeq(keyed, TradeWhere))

\* max_price_seen / entry_ask on float columns, kept as the fraction: a zero
\* divisor raises nothing and gives inf (or nan for 0 / 0)
PeakMultiple(r) ==
    IF IsNull(r.max_price_seen) \/ IsNull(r.entry_ask) THEN NULL
    ELSE Some([num |-> Val(r.max_price_seen), den |-> Val(r.entry_ask)])

\* peak_multiple >= n / d, for a divisor that is not negative
PeakAtLeast(q, n, d) ==
    /\ ~IsNull(q)
    /\ IF Val(q).den = 0 THEN Val(q).num > 0
       ELSE Val(q).num * d >= n * Val(q).den

\* main, lines 83-85
PeakMetrics(d) ==
    [i \in 1..Len(d) |->
        LET q == PeakMultiple(d[i])
        IN  [peak_multiple |-> q,
             had_exit_15x |-> PeakAtLeast(q, 3, 2),
             had_exit_2x |-> PeakAtLeast(q, 2, 1)] @@ d[i]]

\* float(row['entry_ask']) * 1.5; the entry_ask values of the model are even
Threshold15(r) == (Val(r.entry_ask) * 3) \div 2

\* main, lines 150-163: one row of durations
DurationRow(r) ==
    [id |-> r.id, city |-> r.city, range_name |-> r.range_name,
     entry_ask |-> r.entry_ask, peak_multiple |-> r.peak_multiple,
     window_minutes |->
         compute_window_duration(parse_evaluator_log(r.evaluator_log).value,
                                 Threshold15(r)),
     pnl |-> r.pnl]

feat_cols == {"entry_ask", "entry_probability", "entry_edge_pct",
              "entry_spread", "cost", "range_type_enc", "side_enc",
              "city_enc", "hours_to_resolution"}

\* main, lines 198-203: df_model before the dropna
PeakModelFrame(d) ==
    LET city_enc == FitTransform([i \in 1..Len(d) |-> d[i].city])
    IN  [i \in 1..Len(d) |->
            [range_type_enc |->
                 Some(IF d[i].range_type = "unbounded" THEN 1 ELSE 0),
             side_enc |-> Some(IF d[i].side = "YES" THEN 1 ELSE 0),
             city_enc |-> Some(city_enc[i]),
             target |-> IF d[i].had_exit_15x THEN 1 ELSE 0] @@ d[i]]

\* main, line 212, with the limit one lower
TooFewOff(X) == Len(X) < 4

\* main, line 212
TooFew(X) == Len(X) < 5

\* the columns the closing table reads from each row of biggest
BiggestReads == {"city", "range_name", "entry_ask", "peak_multiple", "pnl"}

\* the probabilities recorded for the peak-exit model's predictions
PeakProbGrid == {0, 100}

\* what every step of the peak-exit report leaves alone
PeakIdle == UNCHANGED <<prog, table, train, test, train_clean, test_clean,
                        report, call, ret>>

\* get_losing_trades, line 20: psycopg2.connect
PeakConnect ==
    /\ prog = "peak" /\ pc = "start"
    /\ conn' = "open" /\ pc' = "query"
    /\ UNCHANGED <<df, dur_df, df_model, fit_calls, predict_calls, out>>
    /\ PeakIdle

\* get_losing_trades, line 20: the store is unreachable, connect raises
PeakConnectRaises ==
    /\ prog = "peak" /\ pc = "start"
    /\ pc' = "failed"
    /\ UNCHANGED <<conn, df, dur_df, df_model, fit_calls, predict_calls, out>>
    /\ PeakIdle

\* get_losing_trades, line 33: pd.read_sql returns the matching rows
PeakReadSql ==
    /\ prog = "peak" /\ pc = "query"
    /\ df' = TradeQuery(table) /\ pc' = "close"
    /\ UNCHANGED <<conn, dur_df, df_model, fit_calls, predict_calls, out>>
    /\ PeakIdle

\* get_losing_trades, line 33: pd.read_sql raises; line 34 is never run
PeakReadSqlRaises ==
    /\ prog = "peak" /\ pc = "query"
    /\ pc' = "failed"
    /\ UNCHANGED <<conn, df, dur_df, df_model, fit_calls, predict_calls, out>>
    /\ PeakIdle

\* get_losing_trades, lines 34-35: conn.close() and return
PeakClose ==
    /\ prog = "peak" /\ pc = "close"
    /\ conn' = "closed" /\ pc' = "loaded"
    /\ UNCHANGED <<df, dur_df, df_model, fit_calls, predict_calls, out>>
    /\ PeakIdle

\* main, lines 76-85: to_numeric (which keeps numbers and nulls) and the peak
\* columns
PeakCompute ==
    /\ prog = "peak" /\ pc = "loaded"
    /\ df' = PeakMetrics(df) /\ pc' = "part_a"
    /\ UNCHANGED <<conn, dur_df, df_model, fit_calls, predict_calls, out>>
    /\ PeakIdle

\* df[df['had_exit_15x']]
WindowTrades(d) == SelectSeq(d, LAMBDA r : r.had_exit_15x)

\* main, lines 90-184: Part A, with the window durations
PeakPartA ==
    /\ prog = "peak" /\ pc = "part_a"
    /\ \A i \in 1..Len(WindowTrades(df)) :
           ~parse_evaluator_log(WindowTrades(df)[i].evaluator_log).raised
    /\ dur_df' = [i \in 1..Len(WindowTrades(df)) |->
                     DurationRow(WindowTrades(df)[i])]
    /\ out' = out \cup {"PART A"}
    /\ pc' = "part_b"
    /\ UNCHANGED <<conn, df, df_model, fit_calls, predict_calls>>
    /\ PeakIdle

\* main, line 151: parse_evaluator_log raises inside the loop
PeakPartARaises ==
    /\ prog = "peak" /\ pc = "part_a"
    /\ \E i \in 1..Len(WindowTrades(df)) :
           parse_evaluator_log(WindowTrades(df)[i].evaluator_log).raised
    /\ pc' = "failed"
    /\ UNCHANGED <<conn, df, dur_df, df_model, fit_calls, predict_calls, out>>
    /\ PeakIdle

\* main, lines 189-210: the modelling frame and its dropna
PeakPartB ==
    /\ prog = "peak" /\ pc = "part_b"
    /\ df_model' = DropNa(PeakModelFrame(df), feat_cols)
    /\ pc' = "check"
    /\ UNCHANGED <<conn, df, dur_df, fit_calls, predict_calls, out>>
    /\ PeakIdle

\* main, lines 212-213: too few samples, the notice
PeakSkip ==
    /\ prog = "peak" /\ pc = "check"
    /\ TooFew(Columns(df_model, feat_cols))
    /\ out' = out \cup {"Too few samples"}
    /\ pc' = "biggest"
    /\ UNCHANGED <<conn, df, dur_df, df_model, fit_calls, predict_calls>>
    /\ PeakIdle

\* main, lines 214-237: fit, the importance table, predict on the same rows
PeakFit ==
    /\ prog = "peak" /\ pc = "check"
    /\ ~TooFew(Columns(df_model, feat_cols))
    /\ fit_calls' = Append(fit_calls, Columns(df_model, feat_cols))
    /\ predict_calls' = Append(predict_calls, Columns(df_model, feat_cols))
    /\ \E preds \in [1..Len(df_model) -> PeakProbGrid] :
           df_model' = [i \in 1..Len(df_model) |->
                           [pred_exit_prob |-> Some(preds[i])] @@ df_model[i]]
    /\ pc' = "biggest"
    /\ UNCHANGED <<conn, df, dur_df, out>>
    /\ PeakIdle

\* the frame biggest is taken from, lines 245-248
BiggestFrame == IF Len(dur_df) > 0 THEN dur_df ELSE df

\* main, lines 239-259: the closing table and the banner; reading a column a
\* row does not have raises KeyError
PeakBiggest ==
    /\ prog = "peak" /\ pc = "biggest"
    /\ \A i \in 1..Len(BiggestFrame) : BiggestReads \subseteq DOMAIN BiggestFrame[i]
    /\ out' = out \cup {"DONE"}
    /\ pc' = "done"
    /\ UNCHANGED <<conn, df, dur_df, df_model, fit_calls, predict_calls>>
    /\ PeakIdle

PeakNext ==
    \/ PeakConnect \/ PeakConnectRaises \/ PeakReadSql \/ PeakReadSqlRaises
    \/ PeakClose \/ PeakCompute \/ PeakPartA \/ PeakPartARaises \/ PeakPartB
    \/ PeakSkip \/ PeakFit \/ PeakBiggest

InitPeak ==
    /\ prog = "peak" /\ pc = "start" /\ conn = "none"
    /\ \E k \in 0..MaxTradeRows : table \in [1..k -> TradeRows]
    /\ df = <<>> /\ train = <<>> /\ test = <<>>
    /\ train_clean = <<>> /\ test_clean = <<>>
    /\ dur_df = <<>> /\ df_model = <<>>
    /\ fit_calls = <<>> /\ predict_calls = <<>>
    /\ report = NoReport /\ out = {}
    /\ call = <<>> /\ ret = <<>>

-----------------------------------------------------------------------------
(* One run of one of the two scripts *)

Init == InitWin \/ InitPeak

Next == WinNext \/ PeakNext

Spec == Init /\ [][Next]_vars

-----------------------------------------------------------------------------
(* The helpers applied to drawn arguments *)

\* The entries a stored log array may hold: each of ts, bid and ask absent,
\* null or set.
RawEntries ==
    UNION { { [k \in K |-> CASE k = "ts" -> t [] k = "bid" -> b [] k = "ask" -> a] :
                t \in {NULL, Some("00:00"), Some("00:03")},
                b \in {NULL, Some(65)},
                a \in {NULL, Some(66)} } :
            K \in SUBSET {"ts", "bid", "ask"} }

\* the parsed entries compute_window_duration is applied to, in any order of ts
ParsedEntries == [ts : {0, 60, 180, 240}, bid : {40, 70}, ask : {71}]

Thresholds == {60, 70}

NoCall == [fn |-> "none", log_json |-> LogNone, log_entries |-> <<>>,
           threshold |-> 0, y |-> <<>>]

ParseCall(l) == [NoCall EXCEPT !.fn = "parse_evaluator_log", !.log_json = l]

\* the calls of parse_evaluator_log: on None, on a decoded array, on the JSON
\* text of null and of an array
IsParseCall(c) ==
    \/ c = ParseCall(LogNone)
    \/ c = ParseCall(LogStr(NULL))
    \/ \E k \in 0..MaxRawLen : \E l \in [1..k -> RawEntries] :
           c = ParseCall(LogList(l))
    \/ \E k \in 0..1 : \E l \in [1..k -> RawEntries] :
           c = ParseCall(LogStr(Some(l)))

\* the calls of compute_window_duration
IsWindowCall(c) ==
    \E k \in 0..MaxLogLen : \E l \in [1..k -> ParsedEntries] :
        \E th \in Thresholds :
            c = [NoCall EXCEPT !.fn = "compute_window_duration",
                               !.log_entries = l, !.threshold = th]

\* the calls of LabelEncoder().fit_transform
IsEncodeCall(c) ==
    \E k \in 0..MaxCities : \E y \in [1..k -> Range(CityNames)] :
        c = [NoCall EXCEPT !.fn = "fit_transform", !.y = y]

LoopCall(l, th) ==
    [NoCall EXCEPT !.fn = "window_of_log", !.log_json = l, !.threshold = th]

\* the body of main's duration loop, lines 151-153, on a stored log array and
\* a threshold
IsLoopCall(c) ==
    \E k \in 0..MaxRawLen : \E l \in [1..k -> RawEntries] :
        \E th \in Thresholds : c = LoopCall(LogList(l), th)

FnIdle == UNCHANGED <<prog, conn, table, df, train, test, train_clean,
                      test_clean, dur_df, df_model, fit_calls, predict_calls,
                      report, out, call>>

\* parse_evaluator_log returns its list
ParseReturns ==
    /\ prog = "fn" /\ pc = "start" /\ call.fn = "parse_evaluator_log"
    /\ ~parse_evaluator_log(call.log_json).raised
    /\ ret' = parse_evaluator_log(call.log_json).value
    /\ pc' = "returned"
    /\ FnIdle

\* parse_evaluator_log raises
ParseRaises ==
    /\ prog = "fn" /\ pc = "start" /\ call.fn = "parse_evaluator_log"
    /\ parse_evaluator_log(call.log_json).raised
    /\ pc' = "raised"
    /\ UNCHANGED ret
    /\ FnIdle

\* compute_window_duration returns
WindowReturns ==
    /\ prog = "fn" /\ pc = "start" /\ call.fn = "compute_window_duration"
    /\ ret' = compute_window_duration(call.log_entries, call.threshold)
    /\ pc' = "returned"
    /\ FnIdle

\* LabelEncoder().fit_transform returns the codes
EncodeReturns ==
    /\ prog = "fn" /\ pc = "start" /\ call.fn = "fit_transform"
    /\ ret' = FitTransform(call.y)
    /\ pc' = "returned"
    /\ FnIdle

\* main, lines 151-153: the log is parsed and its window measured
LoopReturns ==
    /\ prog = "fn" /\ pc = "start" /\ call.fn = "window_of_log"
    /\ ~parse_evaluator_log(call.log_json).raised
    /\ ret' = compute_window_duration(parse_evaluator_log(call.log_json).value,
                                      call.threshold)
    /\ pc' = "returned"
    /\ FnIdle

\* main, line 151: parse_evaluator_log raises
LoopRaises ==
    /\ prog = "fn" /\ pc = "start" /\ call.fn = "window_of_log"
    /\ parse_evaluator_log(call.log_json).raised
    /\ pc' = "raised"
    /\ UNCHANGED ret
    /\ FnIdle

NextFn ==
    \/ ParseReturns \/ ParseRaises \/ WindowReturns \/ EncodeReturns
    \/ LoopReturns \/ LoopRaises

InitFn ==
    /\ prog = "fn" /\ pc = "start" /\ conn = "none"
    /\ table = <<>> /\ df = <<>> /\ train = <<>> /\ test = <<>>
    /\ train_clean = <<>> /\ test_clean = <<>>
    /\ dur_df = <<>> /\ df_model = <<>>
    /\ fit_calls = <<>> /\ predict_calls = <<>>
    /\ report = NoReport /\ out = {}
    /\ (\/ IsParseCall(call) \/ IsWindowCall(call) \/ IsEncodeCall(call)
        \/ IsLoopCall(call))
    /\ ret = <<>>

SpecFn == InitFn /\ [][NextFn]_vars

-----------------------------------------------------------------------------
(* The claims *)

Idx(frame) == {frame[i].idx : i \in 1..Len(frame)}

\* C1: in the win predictor, right after the split every training row was
\* created strictly before the cutoff, every evaluation row at or after it,
\* the two partitions share no row, and together they hold every row the
\* loader returned (a row with a null created_at included).
C1_SplitPartitionsLoadedSet ==
    (prog = "win" /\ pc = "split") =>
        /\ \A i \in 1..Len(train) :
               ~IsNull(train[i].created_at) /\ Val(train[i].created_at) < 1200
        /\ \A i \in 1..Len(test) :
               ~IsNull(test[i].created_at) /\ Val(test[i].created_at) >= 1200
        /\ Idx(train) \cap Idx(test) = {}
        /\ Idx(train) \cup Idx(test) = Idx(df)

\* C2: in the win predictor, when the training or the evaluation partition
\* has fewer than 5 rows after the null-feature drop, model.fit and the
\* metrics are never reached and an "insufficient data" notice is printed.
C2_NoFitBelowFiveRows ==
    (/\ prog = "win"
     /\ pc \in {"fitted", "scored", "calibration", "misses", "done", "failed"}
     /\ (Len(train_clean) < 5 \/ Len(test_clean) < 5)
     /\ conn = "closed")
        => /\ fit_calls = <<>>
           /\ predict_calls = <<>>
           /\ pc # "failed"
           /\ "insufficient data" \in out

\* C3: in both loaders the connection is open only while the loader runs:
\* once the loader has returned or failed, it is closed.
C3_ConnectionReleased ==
    conn = "open" => pc \in {"query", "close"}

\* the places of the entries of log whose bid reaches threshold
Qualifying(log, threshold) == {i \in 1..Len(log) : log[i].bid >= threshold}

Least(S) == CHOOSE i \in S : \A j \in S : i <= j
Greatest(S) == CHOOSE i \in S : \A j \in S : i >= j

\* C4: compute_window_duration returns 0 when no entry of the log has
\* bid >= threshold (an empty log included), and otherwise the minutes from
\* the first to the last entry, in log order, with bid >= threshold.
C4_WindowDuration ==
    (prog = "fn" /\ pc = "returned" /\ call.fn = "compute_window_duration") =>
        LET Q == Qualifying(call.log_entries, call.threshold)
        IN  IF Q = {} THEN ret = 0
            ELSE ret * 60 = call.log_entries[Greatest(Q)].ts
                              - call.log_entries[Least(Q)].ts

\* C4 happens: the log [(t0, 0.40), (t1, 0.70), (t2, 0.70), (t3, 0.40)] with
\* threshold 0.60 gives t2 - t1, which is neither t3 - t1 nor t2 - t0.
C4_Witness ==
    /\ prog = "fn" /\ pc = "returned" /\ call.fn = "compute_window_duration"
    /\ call.threshold = 60
    /\ call.log_entries = <<[ts |-> 0, bid |-> 40, ask |-> 71],
                            [ts |-> 60, bid |-> 70, ask |-> 71],
                            [ts |-> 180, bid |-> 70, ask |-> 71],
                            [ts |-> 240, bid |-> 40, ask |-> 71]>>
    /\ ret = 2

\* the entries of a decoded log array that have a ts and a bid
WellFormed(l) ==
    SelectSeq(l, LAMBDA e : /\ "ts" \in DOMAIN e /\ ~IsNull(e.ts)
                            /\ "bid" \in DOMAIN e /\ ~IsNull(e.bid))

\* C5: parse_evaluator_log never raises: a null log gives the empty list, and
\* of a log array exactly the entries with a ts and a bid are kept, in order,
\* whatever their ask.
C5_ParseNeverRaises ==
    (prog = "fn" /\ pc # "start" /\ call.fn = "parse_evaluator_log"
     /\ call.log_json.kind \in {"none", "list"}) =>
        /\ pc = "returned"
        /\ Len(ret) = IF call.log_json.kind = "none" THEN 0
                      ELSE Len(WellFormed(Val(call.log_json.v)))
        /\ call.log_json.kind = "list" =>
               \A i \in 1..Len(ret) :
                   /\ ret[i].ts = to_datetime(Val(WellFormed(Val(call.log_json.v))[i].ts))
                   /\ ret[i].bid = Val(WellFormed(Val(call.log_json.v))[i].bid)

\* C6: in the peak-exit report every row the loader returns has
\* entry_ask > 0, so no peak_multiple is computed with a zero divisor.
C6_NoZeroDivisor ==
    (prog = "peak" /\ pc \notin {"start", "query"}) =>
        \A i \in 1..Len(df) :
            /\ Val(df[i].entry_ask) > 0
            /\ "peak_multiple" \in DOMAIN df[i] =>
                   Val(df[i].peak_multiple).den # 0

RECURSIVE SumCounts(_)
SumCounts(t) == IF t = <<>> THEN 0 ELSE Head(t).count + SumCounts(Tail(t))

NonNull(frame, col) == {i \in 1..Len(frame) : ~IsNull(frame[i][col])}

\* C7: in the win predictor's calibration tables, for the model's pred_prob
\* and for our_probability alike, no interval is listed twice and the counts
\* listed add up to the number of evaluation rows with a value.
C7_CalibrationCountsComplete ==
    (prog = "win" /\ pc \in {"misses", "done"}) =>
        /\ SumCounts(report.pred_bin)
               = Cardinality(NonNull(test_clean, "pred_prob"))
        /\ SumCounts(report.prob_bin)
               = Cardinality(NonNull(test_clean, "our_probability"))
        /\ \A t \in {report.pred_bin, report.prob_bin} :
               \A i, j \in 1..Len(t) : t[i].interval = t[j].interval => i = j

\* C7 happens: a finished run with an evaluation row whose our_probability is
\* exactly 0 and whose prediction is the inner edge 0.3, and another whose
\* our_probability is exactly 1 and whose prediction is exactly 0.
C7_Witness ==
    /\ prog = "win" /\ pc = "done"
    /\ \E i, j \in 1..Len(test_clean) :
           /\ test_clean[i].our_probability = Some(0)
           /\ test_clean[i].pred_prob = Some(30)
           /\ test_clean[j].our_probability = Some(100)
           /\ test_clean[j].pred_prob = Some(0)
    /\ SumCounts(report.pred_bin) = 2 /\ SumCounts(report.prob_bin) = 2

\* a peak-exit run at or after the sample check with fewer than 5 rows left
PeakSmall ==
    prog = "peak" /\ pc \in {"check", "biggest", "done"} /\ Len(df_model) < 5

\* C8: in the peak-exit report, with fewer than 5 rows after the null-feature
\* drop, fit and predict are never called and no prediction column exists,
\* the notice is printed, and the run goes on, step by step and without
\* stopping, to the DONE banner.
C8_SkipAndContinue ==
    /\ []((PeakSmall /\ pc \in {"biggest", "done"}) =>
             /\ fit_calls = <<>> /\ predict_calls = <<>>
             /\ \A i \in 1..Len(df_model) :
                    "pred_exit_prob" \notin DOMAIN df_model[i]
             /\ "Too few samples" \in out)
    /\ []((PeakSmall /\ pc = "done") => "DONE" \in out)
    /\ []((PeakSmall /\ pc # "done") => ENABLED Next)
    /\ [][(PeakSmall /\ pc = "check") => pc' = "biggest"]_vars
    /\ [][(PeakSmall /\ pc = "biggest") => pc' = "done"]_vars

\* C8 happens: a finished peak-exit run that had 4 rows at the check and
\* took its closing table from the durations.
C8_Witness ==
    /\ PeakSmall /\ pc = "done" /\ Len(df_model) = 4 /\ Len(dur_df) > 0
    /\ "Too few samples" \in out

\* the codes a first-seen encoding would give
FirstSeenCodes(y) ==
    [i \in 1..Len(y) |->
        (CHOOSE k \in 1..Len(FirstSeen(y)) : FirstSeen(y)[k] = y[i]) - 1]

\* C9 as stated: the codes follow first-seen order, the first record's city
\* getting code 0.
C9_FirstSeenOrder ==
    (prog = "fn" /\ pc = "returned" /\ call.fn = "fit_transform") =>
        ret = FirstSeenCodes(call.y)

\* C9, amended: a city's code is the number of distinct cities of the batch
\* that sort before it, so the codes depend on the batch's set of cities and
\* not on the order of its records.
C9_SortedOrder ==
    (prog = "fn" /\ pc = "returned" /\ call.fn = "fit_transform") =>
        \A i \in 1..Len(call.y) :
            ret[i] = Cardinality({c \in Range(call.y) :
                                     StrRank(c) < StrRank(call.y[i])})

\* C9 happens: a batch that starts with tokyo and holds seoul later.
C9_Witness ==
    /\ prog = "fn" /\ pc = "returned" /\ call.fn = "fit_transform"
    /\ Len(call.y) >= 2 /\ call.y[1] = "tokyo" /\ call.y[2] = "seoul"
    /\ ret[1] = 1 /\ ret[2] = 0

\* clean holds, in order and unchanged, exactly the rows of part that have no
\* null in the columns feats
ExactlyTheComplete(part, clean, feats) ==
    /\ \A j \in 1..Len(clean) :
           \E i \in 1..Len(part) :
               /\ part[i].idx = clean[j].idx
               /\ \A f \in DOMAIN part[i] : clean[j][f] = part[i][f]
    /\ \A i \in 1..Len(part) :
           (\A f \in feats \cap DOMAIN part[i] : ~IsNull(part[i][f]))
               <=> part[i].idx \in Idx(clean)
    /\ \A j, k \in 1..Len(clean) : j < k => clean[j].idx < clean[k].idx

\* X is frame[feats], and no cell of it is null
CompleteFeaturesOf(X, frame, feats) ==
    /\ Len(X) = Len(frame)
    /\ \A i \in 1..Len(X) :
           /\ DOMAIN X[i] = feats \cup {"idx"}
           /\ X[i].idx = frame[i].idx
           /\ \A f \in feats : ~IsNull(X[i][f]) /\ X[i][f] = frame[i][f]

\* C10: in both scripts the null-feature drop keeps, in order and unchanged,
\* exactly the rows with no null model feature, and every frame handed to
\* fit or predict_proba is the feature columns of such a frame.
C10_DropExactlyNullRows ==
    /\ (prog = "win" /\ (pc \in {"clean", "fitted", "scored", "calibration",
                                 "misses", "done"} \/ fit_calls # <<>>)) =>
           /\ ExactlyTheComplete(train, train_clean, FEATURES)
           /\ ExactlyTheComplete(test, test_clean, FEATURES)
           /\ \A k \in 1..Len(fit_calls) :
                  CompleteFeaturesOf(fit_calls[k], train_clean, FEATURES)
           /\ \A k \in 1..Len(predict_calls) :
                  CompleteFeaturesOf(predict_calls[k], test_clean, FEATURES)
    /\ (prog = "peak" /\ pc \in {"check", "biggest", "done"}) =>
           /\ ExactlyTheComplete(df, df_model, feat_cols)
           /\ \A k \in 1..Len(fit_calls) :
                  CompleteFeaturesOf(fit_calls[k], df_model, feat_cols)
           /\ \A k \in 1..Len(predict_calls) :
                  CompleteFeaturesOf(predict_calls[k], df_model, feat_cols)

\* C10 happens: a win-predictor run that dropped a training row for a null
\* feature and handed the rows left to fit and to predict_proba.
C10_Witness ==
    /\ prog = "win" /\ fit_calls # <<>> /\ predict_calls # <<>>
    /\ 0 < Len(train_clean) /\ Len(train_clean) < Len(train)
    /\ 0 < Len(test_clean)

\* ts never goes down along the sequence
Chronological(ts) == \A i, j \in 1..Len(ts) : i < j => ts[i] <= ts[j]

\* the seconds from the first to the last instant of the sequence
Span(ts) == IF ts = <<>> THEN 0 ELSE ts[Len(ts)] - ts[1]

\* the instants of the entries of a stored log array that have a ts and a
\* bid, in stored order
StoredTs(l) ==
    [i \in 1..Len(WellFormed(l)) |-> to_datetime(Val(WellFormed(l)[i].ts))]

\* C11: for a log whose entries are in non-decreasing ts order and any
\* threshold, compute_window_duration returns at least 0 and at most the
\* minutes from the first to the last entry of the whole log; and since
\* parse_evaluator_log keeps the stored order, the same bound holds for the
\* window of a stored log whenever the stored order is chronological.
C11_WindowWithinLogSpan ==
    /\ (prog = "fn" /\ pc = "returned"
        /\ call.fn = "compute_window_duration"
        /\ Chronological([i \in 1..Len(call.log_entries) |->
                             call.log_entries[i].ts])) =>
           /\ ret >= 0
           /\ ret * 60 <= Span([i \in 1..Len(call.log_entries) |->
                                   call.log_entries[i].ts])
    /\ (prog = "fn" /\ pc = "returned" /\ call.fn = "window_of_log"
        /\ Chronological(StoredTs(Val(call.log_json.v)))) =>
           /\ ret >= 0
           /\ ret * 60 <= Span(StoredTs(Val(call.log_json.v)))

\* C11 happens: a chronological log of four entries spanning 4 minutes whose
\* window, 2 minutes, is positive and shorter than the log.
C11_Witness ==
    /\ prog = "fn" /\ pc = "returned" /\ call.fn = "compute_window_duration"
    /\ Len(call.log_entries) = 4
    /\ Chronological([i \in 1..4 |-> call.log_entries[i].ts])
    /\ call.log_entries[1].ts = 0 /\ call.log_entries[4].ts = 240
    /\ ret = 2

\* The bound of C11 without its premise (the window of any log, in any order
\* of ts, is at least 0) does not hold: the log [(00:01, 0.70), (00:00, 0.70)]
\* with threshold 0.70 gives -1.  The bound rests on the stored order.
C11_AnyOrderNonNegative ==
    (prog = "fn" /\ pc = "returned"
     /\ call.fn \in {"compute_window_duration", "window_of_log"}) => ret >= 0

====
